---- MODULE Spec2Model ----
(***************************************************************************)
(* Model of validator.py (bad-deed-validator): DeedParser, CountyMatcher,  *)
(* DeedValidator and the BadDeedValidator orchestrator.                    *)
(*                                                                         *)
(* Representation.                                                         *)
(*   - A Python str is a sequence of one-character strings.                *)
(*   - Optional[T] is a sequence of length 0 (None) or 1 (the value).      *)
(*   - A datetime is <<year, month, day>> (the parser never sets a time).  *)
(*   - A monetary float is an integer count of 1/Unit dollars.  Unit is a  *)
(*     power of two, so every modelled amount is exactly representable as  *)
(*     an IEEE double and the floating-point subtraction and comparison of *)
(*     the code coincide with integer arithmetic on the counts.            *)
(*   - A similarity ratio / confidence is the pair <<num, den>>.           *)
(*   - An error or warning message is [kind, text, nums]: the fixed prefix *)
(*     of the formatted string, the interpolated text, and the             *)
(*     interpolated numbers after formatting.                              *)
(*   - The raw OCR text is the record of the regions the label-anchored    *)
(*     patterns of DeedParser.parse capture; the conversions applied to    *)
(*     the captured groups (strip, datetime, float, the Million/Thousand   *)
(*     filter) are modelled.  The fields doc_id, state, grantor, grantee   *)
(*     and apn are plain captured strings that no later code reads; the    *)
(*     model keeps `status` as their representative.                       *)
(***************************************************************************)
EXTENDS Integers, Sequences, FiniteSets, TLC

VARIABLES counties_db,  \* CountyMatcher.counties_db, the reference table
          raw_text,     \* the raw OCR text handed to the pipeline
          entry,        \* which entry point the caller used
          deed,         \* the DeedData object in the pipeline
          matched,      \* locals (normalized, confidence) of _enrich_county
          report,       \* the dict returned by process_and_report
          held,         \* the caller's copy of the previous result for raw_text
          passes,       \* validate() calls made on `deed`
          runs,         \* process_deed() calls made on raw_text
          pc            \* position inside the pipeline

vars == <<counties_db, raw_text, entry, deed, matched, report, held, passes, runs, pc>>

\* ---------------------------------------------------------------- bounds
MaxPasses == 2
MaxRuns == 2

\* ------------------------------------------------------- generic helpers
None == <<>>
Some(v) == <<v>>

Unit == 2 ^ 7

Abs(x) == IF x < 0 THEN -x ELSE x

\* round(n / d) to the nearest integer, ties to even (Python format())
RoundHalfEven(n, d) ==
    LET q == n \div d
        r == n % d
    IN  IF 2 * r < d THEN q
        ELSE IF 2 * r > d THEN q + 1
        ELSE IF q % 2 = 0 THEN q ELSE q + 1

\* f'{x:,.2f}' of an amount: the value rounded to cents
Format2f(u) == (u \div Unit) * 100 + RoundHalfEven((u % Unit) * 100, Unit)

\* f'{c:.0%}' of a ratio: the value rounded to whole percent
FormatPercent(c) == RoundHalfEven(c[1] * 100, c[2])

\* ---------------------------------------------------------- str methods
LowerLetters == <<"a","b","c","d","e","f","g","h","i","j","k","l","m",
                  "n","o","p","q","r","s","t","u","v","w","x","y","z">>
UpperLetters == <<"A","B","C","D","E","F","G","H","I","J","K","L","M",
                  "N","O","P","Q","R","S","T","U","V","W","X","Y","Z">>
Digits == <<"0","1","2","3","4","5","6","7","8","9">>
Whitespace == {" ", "\t", "\n", "\r"}

IsDigit(c) == \E i \in 1..10 : Digits[i] = c
DigitVal(c) == (CHOOSE i \in 1..10 : Digits[i] = c) - 1

UpperChar(c) ==
    IF \E i \in 1..26 : LowerLetters[i] = c
    THEN UpperLetters[CHOOSE i \in 1..26 : LowerLetters[i] = c]
    ELSE c

\* str.upper()
Upper(s) == [i \in 1..Len(s) |-> UpperChar(s[i])]

\* str.strip()
Strip(s) ==
    LET keep == {i \in 1..Len(s) : s[i] \notin Whitespace}
    IN  IF keep = {} THEN <<>>
        ELSE LET lo == CHOOSE i \in keep : \A j \in keep : i <= j
                 hi == CHOOSE i \in keep : \A j \in keep : i >= j
             IN  SubSeq(s, lo, hi)

\* s.replace(c, '') for a one-character c
Remove(s, c) == SelectSeq(s, LAMBDA x : x # c)

\* literal in s
Contains(s, lit) ==
    \E i \in 1..(Len(s) - Len(lit) + 1) : SubSeq(s, i, i + Len(lit) - 1) = lit

\* ''.join([w[0] for w in s.split()]): the first character of every
\* whitespace-separated word
RECURSIVE Initials(_, _)
Initials(s, i) ==
    IF i > Len(s) THEN <<>>
    ELSE IF s[i] \notin Whitespace /\ (i = 1 \/ s[i - 1] \in Whitespace)
         THEN <<s[i]>> \o Initials(s, i + 1)
         ELSE Initials(s, i + 1)

\* ------------------------------------------------------------- float()
RECURSIVE DigitsVal(_)
DigitsVal(s) ==
    IF s = <<>> THEN 0
    ELSE DigitsVal(SubSeq(s, 1, Len(s) - 1)) * 10 + DigitVal(s[Len(s)])

RECURSIVE Pow10(_)
Pow10(n) == IF n = 0 THEN 1 ELSE 10 * Pow10(n - 1)

\* float(s) for s made of digits and '.'; None stands for ValueError.
\* The value is in 1/Unit dollars; the modelled literals are dyadic, so the
\* division is exact.
ParseFloat(s) ==
    LET dots == {i \in 1..Len(s) : s[i] = "."}
        ok   == /\ \A i \in 1..Len(s) : IsDigit(s[i]) \/ s[i] = "."
                /\ Cardinality(dots) <= 1
                /\ \E i \in 1..Len(s) : IsDigit(s[i])
    IN  IF ~ok THEN None
        ELSE LET p    == IF dots = {} THEN Len(s) + 1 ELSE CHOOSE i \in dots : TRUE
                 int  == SubSeq(s, 1, p - 1)
                 frac == SubSeq(s, p + 1, Len(s))
             IN  Some(DigitsVal(int) * Unit + (DigitsVal(frac) * Unit) \div Pow10(Len(frac)))

\* ------------------------------------------------------------ datetime()
IsLeap(y) == (y % 4 = 0 /\ y % 100 # 0) \/ y % 400 = 0

DaysInMonth(y, m) ==
    IF m = 2 THEN (IF IsLeap(y) THEN 29 ELSE 28)
    ELSE IF m \in {4, 6, 9, 11} THEN 30 ELSE 31

\* datetime(y, m, d); None stands for ValueError
MakeDate(g) ==
    IF /\ g[1] >= 1 /\ g[1] <= 9999
       /\ g[2] >= 1 /\ g[2] <= 12
       /\ g[3] >= 1 /\ g[3] <= DaysInMonth(g[1], g[2])
    THEN Some(g) ELSE None

\* datetime.__gt__
DateGT(a, b) ==
    \/ a[1] > b[1]
    \/ a[1] = b[1] /\ a[2] > b[2]
    \/ a[1] = b[1] /\ a[2] = b[2] /\ a[3] > b[3]

\* datetime.isoformat(): 'YYYY-MM-DDT00:00:00'
IsoFormat(d) == <<d[1], d[2], d[3], 0, 0, 0>>

\* ------------------------------------------------------------- messages
Message(kind, text, nums) == [kind |-> kind, text |-> text, nums |-> nums]

\* --------------------------------------------------------------- DeedData
NewDeedData ==
    [county_raw |-> None, county_normalized |-> None,
     date_signed |-> None, date_recorded |-> None,
     amount_numeric |-> None, amount_written |-> None,
     status |-> None, tax_rate |-> None,
     errors |-> <<>>, warnings |-> <<>>]

ToDict(d) ==
    [d EXCEPT !.date_signed = IF d.date_signed # None
                              THEN Some(IsoFormat(d.date_signed[1])) ELSE None,
              !.date_recorded = IF d.date_recorded # None
                                THEN Some(IsoFormat(d.date_recorded[1])) ELSE None]

\* ------------------------------------------------------------- DeedParser
\* _extract_field: the captured group, stripped
ExtractField(captured) ==
    IF captured = None THEN None ELSE Some(Strip(captured[1]))

\* _parse_date: the three captured digit groups, converted
ParseDate(captured) ==
    IF captured = None THEN None ELSE MakeDate(captured[1])

\* float(group.replace(',', '')) inside try/except ValueError
ParseAmountNumeric(captured) ==
    IF captured = None THEN None ELSE ParseFloat(Remove(captured[1], ","))

MillionLit == <<"M","i","l","l","i","o","n">>
ThousandLit == <<"T","h","o","u","s","a","n","d">>

\* the first parenthesised expression containing Million or Thousand
ParseAmountWritten(parens) ==
    LET hits == {i \in 1..Len(parens) :
                    Contains(parens[i], MillionLit) \/ Contains(parens[i], ThousandLit)}
    IN  IF hits = {} THEN None
        ELSE Some(Strip(parens[CHOOSE i \in hits : \A j \in hits : i <= j]))

\* mutant: the lists are shared between DeedData instances
ParseSharedLists(text) ==
    [NewDeedData EXCEPT
        !.county_raw = ExtractField(text.county),
        !.date_signed = ParseDate(text.date_signed),
        !.date_recorded = ParseDate(text.date_recorded),
        !.status = ExtractField(text.status),
        !.amount_numeric = ParseAmountNumeric(text.amount),
        !.amount_written = ParseAmountWritten(text.parens),
        !.errors = deed.errors,
        !.warnings = deed.warnings]

Parse(text) ==
    [NewDeedData EXCEPT
        !.county_raw = ExtractField(text.county),
        !.date_signed = ParseDate(text.date_signed),
        !.date_recorded = ParseDate(text.date_recorded),
        !.status = ExtractField(text.status),
        !.amount_numeric = ParseAmountNumeric(text.amount),
        !.amount_written = ParseAmountWritten(text.parens)]

\* ---------------------------------------------------------- CountyMatcher
\* difflib.SequenceMatcher(None, a, b) without junk; positions are 1-based,
\* ranges are [lo, hi).
RECURSIVE RunLen(_, _, _, _, _, _)
RunLen(a, b, i, j, ahi, bhi) ==
    IF i < ahi /\ j < bhi /\ a[i] = b[j]
    THEN 1 + RunLen(a, b, i + 1, j + 1, ahi, bhi)
    ELSE 0

\* find_longest_match: <<i, j, k>> with k maximal, then i minimal, then j
\* minimal; <<alo, blo, 0>> when nothing matches
FindLongestMatch(a, b, alo, ahi, blo, bhi) ==
    LET pos  == (alo..(ahi - 1)) \X (blo..(bhi - 1))
        len  == [p \in pos |-> RunLen(a, b, p[1], p[2], ahi, bhi)]
        hits == {p \in pos : len[p] > 0}
    IN  IF hits = {} THEN <<alo, blo, 0>>
        ELSE LET best == CHOOSE p \in hits :
                            \A q \in hits :
                               \/ len[p] > len[q]
                               \/ len[p] = len[q] /\ p[1] < q[1]
                               \/ len[p] = len[q] /\ p[1] = q[1] /\ p[2] <= q[2]
             IN  <<best[1], best[2], len[best]>>

\* get_matching_blocks: the summed size of the matching blocks
RECURSIVE MatchingSize(_, _, _, _, _, _)
MatchingSize(a, b, alo, ahi, blo, bhi) ==
    LET m == FindLongestMatch(a, b, alo, ahi, blo, bhi)
        i == m[1]
        j == m[2]
        k == m[3]
    IN  IF k = 0 THEN 0
        ELSE k + (IF alo < i /\ blo < j
                  THEN MatchingSize(a, b, alo, i, blo, j) ELSE 0)
               + (IF i + k < ahi /\ j + k < bhi
                  THEN MatchingSize(a, b, i + k, ahi, j + k, bhi) ELSE 0)

\* SequenceMatcher.ratio(): 2.0 * matches / (len(a) + len(b)), 1.0 if both empty
Ratio(a, b) ==
    IF Len(a) + Len(b) = 0 THEN <<1, 1>>
    ELSE <<2 * MatchingSize(a, b, 1, Len(a) + 1, 1, Len(b) + 1), Len(a) + Len(b)>>

\* comparisons of two ratios / of a ratio with a decimal literal n/d
RatioGT(x, y) == x[1] * y[2] > y[1] * x[2]
RatioLT(x, y) == x[1] * y[2] < y[1] * x[2]

ExactConfidence == <<1, 1>>
AbbrevConfidence == <<95, 100>>
FuzzyThreshold == <<6, 10>>
LowConfidenceThreshold == <<9, 10>>

Raised(msg) == [raised |-> TRUE, msg |-> msg, name |-> <<>>, conf |-> <<0, 1>>]
Returned(name, conf) ==
    [raised |-> FALSE, msg |-> Message("", <<>>, <<>>), name |-> name, conf |-> conf]

\* the body of the for loop of match_county, from entry n on
RECURSIVE MatchLoop(_, _, _, _, _)
MatchLoop(db, county_raw, n, best_match, best_ratio) ==
    IF n > Len(db)
    THEN IF RatioLT(best_ratio, FuzzyThreshold)
         THEN Raised(Message("No match for", county_raw, <<>>))
         ELSE Returned(best_match, best_ratio)
    ELSE LET county_info == db[n]
             county_name == Upper(county_info.name)
             abbrev      == Upper(Initials(county_info.name, 1))
             ratio       == Ratio(county_raw, county_name)
         IN  IF county_raw = county_name
             THEN Returned(county_info.name, ExactConfidence)
             ELSE IF Remove(Remove(county_raw, "."), " ") = abbrev
             THEN Returned(county_info.name, AbbrevConfidence)
             ELSE IF RatioGT(ratio, best_ratio)
             THEN MatchLoop(db, county_raw, n + 1, county_info.name, ratio)
             ELSE MatchLoop(db, county_raw, n + 1, best_match, best_ratio)

match_county(db, county_raw) ==
    IF county_raw = <<>>
    THEN Raised(Message("County name is empty", <<>>, <<>>))
    ELSE MatchLoop(db, Upper(Strip(county_raw)), 1, <<>>, <<0, 1>>)

\* get_tax_rate: None stands for the raised CountyLookupError
get_tax_rate(db, county_name) ==
    LET hits == {n \in 1..Len(db) : Upper(db[n].name) = Upper(county_name)}
    IN  IF hits = {} THEN None
        ELSE Some(db[CHOOSE n \in hits : \A m \in hits : n <= m].tax_rate)

\* ---------------------------------------------------------- DeedValidator
RECURSIVE DigitRunEnd(_, _)
DigitRunEnd(s, i) ==
    IF i <= Len(s) /\ IsDigit(s[i]) THEN DigitRunEnd(s, i + 1) ELSE i

RECURSIVE SkipSpace(_, _)
SkipSpace(s, i) ==
    IF i <= Len(s) /\ s[i] \in Whitespace THEN SkipSpace(s, i + 1) ELSE i

LitAt(s, i, lit) ==
    i + Len(lit) - 1 <= Len(s) /\ SubSeq(s, i, i + Len(lit) - 1) = lit

\* a match of (\d+(?:\.\d+)?)\s*<lit> starting at i: the last position of
\* the captured group, 0 if there is no match at i
CaptureEnd(s, i, lit) ==
    IF ~IsDigit(s[i]) THEN 0
    ELSE LET j == DigitRunEnd(s, i)
             frac == j + 1 <= Len(s) /\ s[j] = "." /\ IsDigit(s[j + 1])
             k == DigitRunEnd(s, j + 1)
         IN  IF frac /\ LitAt(s, SkipSpace(s, k), lit) THEN k - 1
             ELSE IF LitAt(s, SkipSpace(s, j), lit) THEN j - 1
             ELSE 0

\* re.search(r'(\d+(?:\.\d+)?)\s*<lit>', s): group(1) of the leftmost match
SearchNumber(s, lit) ==
    LET hits == {i \in 1..Len(s) : CaptureEnd(s, i, lit) > 0}
    IN  IF hits = {} THEN None
        ELSE LET i == CHOOSE h \in hits : \A g \in hits : h <= g
             IN  Some(SubSeq(s, i, CaptureEnd(s, i, lit)))

Component(written, lit, scale) ==
    IF ~Contains(written, lit) THEN 0
    ELSE LET m == SearchNumber(written, lit)
         IN  IF m = None THEN 0 ELSE ParseFloat(m[1])[1] * scale

_parse_written_amount(written) ==
    LET amount == Component(written, MillionLit, 1000000)
                  + Component(written, ThousandLit, 1000)
    IN  IF amount > 0 THEN Some(amount) ELSE None

\* mutant: the comparison is not strict
DateLogicRaisesNotStrict(d) ==
    /\ d.date_signed # None
    /\ d.date_recorded # None
    /\ ~DateGT(d.date_signed[1], d.date_recorded[1])

\* the condition under which _validate_date_logic raises
DateLogicRaises(d) ==
    /\ d.date_signed # None
    /\ d.date_recorded # None
    /\ DateGT(d.date_recorded[1], d.date_signed[1])

DateLogicMessage(d) ==
    Message("Date logic violation", <<>>, d.date_recorded[1] \o d.date_signed[1])

\* `not deed.amount_numeric or not deed.amount_written`
AmountSkipped(d) ==
    \/ d.amount_numeric = None \/ d.amount_numeric[1] = 0
    \/ d.amount_written = None \/ d.amount_written[1] = <<>>

Discrepancy(d) ==
    Abs(d.amount_numeric[1] - _parse_written_amount(d.amount_written[1])[1])

\* `discrepancy > 0.01`: for a whole number of 1/Unit dollars
ExceedsTolerance(discrepancy) == discrepancy > Unit \div 100

AmountMismatchMessage(d) ==
    Message("Amount mismatch", d.amount_written[1],
            <<Format2f(d.amount_numeric[1]), Format2f(Discrepancy(d))>>)

CouldNotParseMessage(d) == Message("Could not parse", d.amount_written[1], <<>>)

LowConfidenceMessage(conf) ==
    Message("Low confidence county match", <<>>, <<FormatPercent(conf)>>)

NotCalled == [raised |-> FALSE, msg |-> Message("", <<>>, <<>>), name |-> <<>>, conf |-> <<0, 1>>]

\* ------------------------------------------------------------ the inputs
\* reference tables (counties.json): name and tax rate (in 1/10000)
SantaClara == <<"S", "a", "n", "t", "a", " ", "C", "l", "a", "r", "a">>
SanMateo == <<"S", "a", "n", " ", "M", "a", "t", "e", "o">>
SantaCruz == <<"S", "a", "n", "t", "a", " ", "C", "r", "u", "z">>
SC == <<"S", "C">>

County(name, rate) == [name |-> name, tax_rate |-> rate]

Tables ==
    { <<County(SantaClara, 125), County(SanMateo, 110), County(SantaCruz, 130)>>,
      <<County(SantaClara, 125), County(SC, 90)>>,
      <<County(SC, 90), County(SantaClara, 125)>> }

\* text captured after the County label
CountyTexts ==
    { None,
      Some(SantaClara),
      Some(<<" ", "s", "a", "n", "t", "a", " ", "c", "l", "a", "r", "a", " ">>),
      Some(<<"S", ".", " ", "C", "l", "a", "r", "a">>),
      Some(SC),
      Some(<<"Z", "z", "y", "z", "x", " ", "C", "o", "u", "n", "t", "y">>),
      Some(<<"S", "a", "n", "t", "a", " ", "C", "l", "a", "r">>),
      Some(<<" ">>) }

\* digit groups captured after the Date Signed / Date Recorded labels
DatePairs ==
    { <<None, Some(<<2020, 1, 10>>)>>,
      <<Some(<<2020, 1, 5>>), None>>,
      <<Some(<<2020, 1, 5>>), Some(<<2020, 1, 5>>)>>,
      <<Some(<<2020, 1, 5>>), Some(<<2020, 1, 10>>)>>,
      <<Some(<<2020, 1, 10>>), Some(<<2020, 1, 5>>)>>,
      <<Some(<<2020, 13, 1>>), Some(<<2020, 1, 10>>)>> }

\* text captured after "Amount: $", and the parenthesised expressions
AmountPairs ==
    { <<None, <<>>>>,
      <<Some(<<"1", ",", "0", "0", "0", ",", "0", "0", "0", ".", "0", "0">>), <<<<"T", "w", "o", " ", "M", "i", "l", "l", "i", "o", "n">>>>>>,
      <<Some(<<"1", ",", "0", "0", "0", ",", "0", "0", "0", ".", "0", "0">>), <<<<"2", " ", "M", "i", "l", "l", "i", "o", "n">>>>>>,
      <<Some(<<"1", ",", "5", "0", "0", ",", "0", "0", "0", ".", "0", "0">>), <<<<"1", " ", "M", "i", "l", "l", "i", "o", "n", " ", "5", "0", "0", " ", "T", "h", "o", "u", "s", "a", "n", "d">>>>>>,
      <<Some(<<"1", ",", "5", "0", "0", ",", "0", "0", "0", ".", "0", "0">>), <<<<"t", "h", "e", " ", "P", "r", "o", "p", "e", "r", "t", "y">>, <<" ", "1", ".", "5", " ", "M", "i", "l", "l", "i", "o", "n", " ">>>>>>,
      <<Some(<<"0", ".", "0", "0">>), <<<<"1", " ", "M", "i", "l", "l", "i", "o", "n">>>>>>,
      <<Some(<<"1", ",", "0", "0", "0", ",", "0", "0", "0", ".", "0", "0", "7", "8", "1", "2", "5">>), <<<<"1", " ", "M", "i", "l", "l", "i", "o", "n">>>>>>,
      <<Some(<<"1", ",", "0", "0", "0", ",", "0", "0", "0", ".", "0", "1", "5", "6", "2", "5">>), <<<<"1", " ", "M", "i", "l", "l", "i", "o", "n">>>>>>,
      <<Some(<<"1", ".", "2", ".", "3">>), <<<<"1", " ", "M", "i", "l", "l", "i", "o", "n">>>>>> }

StatusTexts == { None, Some(<<"P", "R", "E", "L", "I", "M", "I", "N", "A", "R", "Y">>) }

RawTexts ==
    { [county |-> c, date_signed |-> dp[1], date_recorded |-> dp[2],
       amount |-> ap[1], parens |-> ap[2], status |-> st] :
        c \in CountyTexts, dp \in DatePairs, ap \in AmountPairs, st \in StatusTexts }

EmptyText ==
    [county |-> None, date_signed |-> None, date_recorded |-> None,
     amount |-> None, parens |-> <<>>, status |-> None]

EntryPoints == {"process_deed", "process_and_report"}

\* ------------------------------------------------------------ the machine
NoReport == <<>>

Init ==
    /\ counties_db \in Tables
    /\ raw_text = EmptyText
    /\ entry = "none"
    /\ deed = NewDeedData
    /\ matched = NotCalled
    /\ report = NoReport
    /\ held = None
    /\ passes = 0
    /\ runs = 0
    /\ pc = "idle"

AppendError(d, msg) == [d EXCEPT !.errors = Append(@, msg)]
AppendWarning(d, msg) == [d EXCEPT !.warnings = Append(@, msg)]

\* process_deed / process_and_report are called with a raw text: the parser
\* builds a fresh DeedData and validate() is entered
ProcessDeed(text, ep) ==
    /\ pc = "idle"
    /\ raw_text' = text
    /\ entry' = ep
    /\ deed' = Parse(text)
    /\ matched' = NotCalled
    /\ passes' = 1
    /\ runs' = 1
    /\ pc' = "date"
    /\ UNCHANGED <<counties_db, report, held>>

\* mutant: the DateLogicError is recorded and the remaining checks still run
ValidateDateLogicContinue ==
    /\ pc = "date"
    /\ IF DateLogicRaises(deed)
       THEN deed' = AppendError(deed, DateLogicMessage(deed))
       ELSE deed' = deed
    /\ pc' = "amount"
    /\ UNCHANGED <<counties_db, raw_text, entry, matched, report, held, passes, runs>>

\* validate(): self._validate_date_logic(deed); a raised DateLogicError is
\* caught by validate's except clause, appended, and validate returns
ValidateDateLogic ==
    /\ pc = "date"
    /\ IF DateLogicRaises(deed)
       THEN /\ deed' = AppendError(deed, DateLogicMessage(deed))
            /\ pc' = "validated"
       ELSE /\ deed' = deed
            /\ pc' = "amount"
    /\ UNCHANGED <<counties_db, raw_text, entry, matched, report, held, passes, runs>>

\* validate(): self._validate_amount_reconciliation(deed)
ValidateAmountReconciliation ==
    /\ pc = "amount"
    /\ IF AmountSkipped(deed)
       THEN deed' = deed /\ pc' = "county"
       ELSE IF _parse_written_amount(deed.amount_written[1]) = None
       THEN deed' = AppendWarning(deed, CouldNotParseMessage(deed)) /\ pc' = "county"
       ELSE IF ExceedsTolerance(Discrepancy(deed))
       THEN deed' = AppendError(deed, AmountMismatchMessage(deed)) /\ pc' = "validated"
       ELSE deed' = deed /\ pc' = "county"
    /\ UNCHANGED <<counties_db, raw_text, entry, matched, report, held, passes, runs>>

\* mutant: the caught CountyLookupError is appended to the errors
EnrichedAsError(d, m) ==
    IF m.raised THEN AppendError(d, m.msg)
    ELSE LET rate == get_tax_rate(counties_db, m.name)
             d1 == [d EXCEPT !.county_normalized = Some(m.name)]
         IN  IF rate = None
             THEN AppendError(d1, Message("County not found", m.name, <<>>))
             ELSE LET d2 == [d1 EXCEPT !.tax_rate = rate]
                  IN  IF RatioLT(m.conf, LowConfidenceThreshold)
                      THEN AppendWarning(d2, LowConfidenceMessage(m.conf))
                      ELSE d2

\* the effect of _enrich_county on the record, given the result of match_county
Enriched(d, m) ==
    IF m.raised THEN AppendWarning(d, m.msg)
    ELSE LET rate == get_tax_rate(counties_db, m.name)
             d1 == [d EXCEPT !.county_normalized = Some(m.name)]
         IN  IF rate = None
             THEN AppendWarning(d1, Message("County not found", m.name, <<>>))
             ELSE LET d2 == [d1 EXCEPT !.tax_rate = rate]
                  IN  IF RatioLT(m.conf, LowConfidenceThreshold)
                      THEN AppendWarning(d2, LowConfidenceMessage(m.conf))
                      ELSE d2

\* validate(): self._enrich_county(deed), then return
EnrichCounty ==
    /\ pc = "county"
    /\ IF deed.county_raw # None /\ deed.county_raw[1] # <<>>
       THEN LET m == match_county(counties_db, deed.county_raw[1])
            IN  /\ matched' = m
                /\ deed' = Enriched(deed, m)
       ELSE /\ matched' = matched
            /\ deed' = deed
    /\ pc' = "validated"
    /\ UNCHANGED <<counties_db, raw_text, entry, report, held, passes, runs>>

\* mutant: a warning also rejects the record
BuildReportWarningsReject(d) ==
    [status |-> IF d.errors = <<>> /\ d.warnings = <<>> THEN "APPROVED" ELSE "REJECTED",
     deed |-> ToDict(d),
     errors |-> d.errors,
     warnings |-> d.warnings,
     error_count |-> Len(d.errors),
     warning_count |-> Len(d.warnings)]

\* the dict process_and_report builds from the validated record
BuildReport(d) ==
    [status |-> IF d.errors = <<>> THEN "APPROVED" ELSE "REJECTED",
     deed |-> ToDict(d),
     errors |-> d.errors,
     warnings |-> d.warnings,
     error_count |-> Len(d.errors),
     warning_count |-> Len(d.warnings)]

ProcessAndReport ==
    /\ pc = "validated"
    /\ entry = "process_and_report"
    /\ report' = Some(BuildReport(deed))
    /\ pc' = "reported"
    /\ UNCHANGED <<counties_db, raw_text, entry, deed, matched, held, passes, runs>>

\* the caller of process_deed keeps a copy of the returned record and passes
\* the record to DeedValidator.validate once more
Revalidate ==
    /\ pc = "validated"
    /\ entry = "process_deed"
    /\ passes < MaxPasses
    /\ held' = Some([deed |-> deed, passes |-> passes])
    /\ passes' = passes + 1
    /\ matched' = NotCalled
    /\ pc' = "date"
    /\ UNCHANGED <<counties_db, raw_text, entry, deed, report, runs>>

\* the caller keeps the returned record and calls process_deed again on the
\* same raw text
ProcessDeedAgain ==
    /\ pc = "validated"
    /\ entry = "process_deed"
    /\ runs < MaxRuns
    /\ held' = Some([deed |-> deed, passes |-> passes])
    /\ deed' = Parse(raw_text)
    /\ matched' = NotCalled
    /\ passes' = 1
    /\ runs' = runs + 1
    /\ pc' = "date"
    /\ UNCHANGED <<counties_db, raw_text, entry, report>>

Next ==
    \/ \E text \in RawTexts, ep \in EntryPoints : ProcessDeed(text, ep)
    \/ ValidateDateLogic
    \/ ValidateAmountReconciliation
    \/ EnrichCounty
    \/ ProcessAndReport
    \/ Revalidate
    \/ ProcessDeedAgain

Spec == Init /\ [][Next]_vars

\* ============================================================== claims
HasError(kind) == \E i \in 1..Len(deed.errors) : deed.errors[i].kind = kind
HasWarning(kind) == \E i \in 1..Len(deed.warnings) : deed.warnings[i].kind = kind

Validated == pc \in {"validated", "reported"}

\* the day count used to compare two calendar dates
DayNumber(d) == d[1] * 10000 + d[2] * 100 + d[3]

RecordedLaterThanSigned ==
    /\ deed.date_signed # None
    /\ deed.date_recorded # None
    /\ DayNumber(deed.date_recorded[1]) > DayNumber(deed.date_signed[1])

\* the date-order check has run on the record
DateChecked == pc \in {"amount", "county", "validated", "reported"} \/ passes > 1

AmountChecked ==
    /\ passes = 1
    /\ pc = "county" \/ (Validated /\ ~RecordedLaterThanSigned)

\* |N - W| > 0.01 for a difference in 1/Unit dollars
MoreThanACent(diff) == diff \div Unit >= 1 \/ (diff % Unit) * 100 > Unit

\* C2 (as claimed): with a numeric amount N present, zero included, and a
\* written amount parsing to W, there is no AmountMismatchError when
\* |N - W| <= 0.01, and there is one reporting |N - W| (to the cent) when
\* |N - W| > 0.01.
C2_AmountReconciled ==
    (/\ AmountChecked
     /\ deed.amount_numeric # None
     /\ deed.amount_written # None
     /\ _parse_written_amount(deed.amount_written[1]) # None)
    => LET N == deed.amount_numeric[1]
           W == _parse_written_amount(deed.amount_written[1])[1]
           diff == IF N >= W THEN N - W ELSE W - N
           cents == (diff \div Unit) * 100 + ((diff % Unit) * 100) \div Unit
       IN  IF MoreThanACent(diff)
           THEN \E i \in 1..Len(deed.errors) :
                   /\ deed.errors[i].kind = "Amount mismatch"
                   /\ deed.errors[i].nums[2] \in {cents, cents + 1}
           ELSE ~HasError("Amount mismatch")

OneMillionDollars == 1000000 * Unit

\* C3 (as claimed): amount 1,000,000.00 with the written amount
\* 'Two Million' yields an AmountMismatchError with delta 1,000,000.00 and
\* a REJECTED report.
C3_TwoMillionMismatch ==
    (/\ AmountChecked
     /\ Validated
     /\ deed.amount_numeric = Some(OneMillionDollars)
     /\ deed.amount_written = Some(<<"T","w","o"," ","M","i","l","l","i","o","n">>))
    => /\ \E i \in 1..Len(deed.errors) :
             /\ deed.errors[i].kind = "Amount mismatch"
             /\ deed.errors[i].nums[2] = 100000000
       /\ pc = "reported" => report[1].status = "REJECTED"

\* match_county has been called in this validation
MatchCalled == matched.raised \/ matched.name # <<>>

\* C4 (as claimed): a raw name equal, ignoring case, to the name of some
\* entry of the table is matched to that entry with confidence 1.0,
\* whatever the order of the entries.
C4_ExactMatchFirst ==
    MatchCalled =>
        \A n \in 1..Len(counties_db) :
            Upper(counties_db[n].name) = Upper(deed.county_raw[1])
            => matched = Returned(counties_db[n].name, <<1, 1>>)

\* C5 (as claimed): 'S. Clara' against a table containing 'Santa Clara' is
\* an abbreviation match with confidence 0.95 and no low-confidence warning.
C5_SClaraAbbreviation ==
    (/\ MatchCalled
     /\ deed.county_raw = Some(<<"S","."," ","C","l","a","r","a">>)
     /\ \E n \in 1..Len(counties_db) : counties_db[n].name = SantaClara)
    => /\ matched = Returned(SantaClara, <<95, 100>>)
       /\ ~HasWarning("Low confidence county match")

JurisdictionKinds == {"County name is empty", "No match for", "County not found"}

\* the jurisdiction of the record was not resolved
LookupFailed == matched.raised \/ deed.county_raw = Some(<<>>)

C7_StatusIffErrors ==
    pc = "reported" =>
        /\ report[1].status = "REJECTED" <=> Len(deed.errors) > 0
        /\ report[1].status = "APPROVED" <=> Len(deed.errors) = 0
        /\ report[1].errors = deed.errors
        /\ report[1].warnings = deed.warnings
        /\ report[1].error_count = Len(deed.errors)
        /\ report[1].warning_count = Len(deed.warnings)

C7_Witness ==
    /\ pc = "reported"
    /\ report[1].status = "APPROVED"
    /\ report[1].warning_count > 0
    /\ deed.status # None

\* C8 (as claimed): after a record validated once is validated again, or the
\* same raw text is processed again, the error and warning lists are those
\* of the first validation.
C8_Idempotent ==
    (pc = "validated" /\ held # None /\ held[1].passes = 1) =>
        /\ deed.errors = held[1].deed.errors
        /\ deed.warnings = held[1].deed.warnings

\* C8 (amended): processing the same raw text again yields the lists of the
\* first run; validating the returned record again appends the messages of
\* the first validation a second time.
C8_RerunIdentical ==
    (pc = "validated" /\ held # None /\ held[1].passes = 1) =>
        IF passes = 1
        THEN /\ deed.errors = held[1].deed.errors
             /\ deed.warnings = held[1].deed.warnings
        ELSE /\ deed.errors = held[1].deed.errors \o held[1].deed.errors
             /\ deed.warnings = held[1].deed.warnings \o held[1].deed.warnings

C8_Witness ==
    /\ pc = "validated"
    /\ held # None
    /\ held[1].passes = 1
    /\ passes = 1
    /\ runs = 2
    /\ deed.errors # <<>>
    /\ deed.errors = held[1].deed.errors

\* the record breaks the amount rule: both amounts given, the written one
\* parses, and they differ by more than a cent
AmountRuleBroken ==
    /\ deed.amount_numeric # None /\ deed.amount_numeric[1] # 0
    /\ deed.amount_written # None
    /\ _parse_written_amount(deed.amount_written[1]) # None
    /\ MoreThanACent(Abs(deed.amount_numeric[1]
                         - _parse_written_amount(deed.amount_written[1])[1]))

\* C9: the checks run in the order date, amount, jurisdiction and the first
\* failure ends the validation: a validation adds at most one error, the
\* later checks are reached only without an error, and a record breaking
\* both rules records the DateLogicError alone.
C9_ShortCircuit ==
    /\ Len(deed.errors) <= passes
    /\ (passes = 1 /\ pc \in {"amount", "county"}) => deed.errors = <<>>
    /\ (passes = 1 /\ pc = "amount") => ~RecordedLaterThanSigned
    /\ (passes = 1 /\ pc = "county") => ~AmountRuleBroken
    /\ (passes = 1 /\ Validated /\ RecordedLaterThanSigned /\ AmountRuleBroken) =>
          /\ Len(deed.errors) = 1
          /\ deed.errors[1].kind = "Date logic violation"

C9_Witness ==
    /\ pc = "validated"
    /\ passes = 1
    /\ RecordedLaterThanSigned
    /\ AmountRuleBroken
    /\ Len(deed.errors) = 1
    /\ deed.errors[1].kind = "Date logic violation"

\* C10 (as claimed): after every validation of a record with a raw
\* jurisdiction, either county_normalized and tax_rate are set or a
\* jurisdiction warning was appended, also when an error was recorded.
C10_EnrichmentAlways ==
    (Validated /\ deed.county_raw # None /\ deed.county_raw[1] # <<>>) =>
        \/ deed.county_normalized # None /\ deed.tax_rate # None
        \/ \E i \in 1..Len(deed.warnings) : deed.warnings[i].kind \in JurisdictionKinds

====
